---- MODULE Spec2Model ----
(***************************************************************************)
(* Aetherium Labyrinth: the leaderboard reducer and the serial transport  *)
(* of main.js, the session timer of renderer.js and the run state machine *)
(* of maze.ino.                                                            *)
(*                                                                         *)
(* Conventions                                                             *)
(*  - The leaderboard file is the sequence of its data rows; a row holds   *)
(*    the cell values that sheet.addRows wrote.  readData's sanitising of  *)
(*    the cells is ReadData, so the file and what is read back from it are *)
(*    different things.                                                    *)
(*  - JavaScript's Infinity is the integer Infinity, one above every       *)
(*    elapsed time of the model, so that < and "minimum" keep their        *)
(*    meaning.                                                             *)
(*  - Event listeners are enabled whenever the source registers them: the  *)
(*    only guards are the conditions written in the handlers.              *)
(***************************************************************************)
EXTENDS Integers, Sequences, FiniteSets, TLC

VARIABLES
    file,            \* leaderboard.xlsx: the data rows below the header
    fileState,       \* leaderboard.xlsx: "ok", or why it cannot be read
    saves,           \* invocations of 'excel:save-data', in order of arrival
    screen,          \* the screen carrying the class 'active'
    timerInterval,   \* renderer.js timerInterval
    intervals,       \* interval timers scheduled and not cleared
    startTime,       \* renderer.js startTime
    clock,           \* Date.now()
    currentPlayer,   \* renderer.js currentPlayer
    finishing,       \* finishGame calls past the guard, one per save
    startsSent,      \* number of sendCommand('START') calls
    cmdQueue,        \* 'serial:send-command' messages on their way to main
    leaderboardBody, \* the rows of the leaderboard table, from the top
    portIsOpen,      \* port && port.isOpen
    toDevice,        \* lines written to the port, not yet read by the device
    toHost,          \* lines printed by the device, not yet parsed by main
    ipcSerial,       \* 'serial:data-received' messages on their way to the renderer
    devPc,           \* position of the device: setup, or one of loop's two blocks
    gameIsActive,    \* maze.ino gameIsActive
    finishEmitted,   \* number of FINISH lines printed by the device
    activations,     \* number of IDLE to ACTIVE transitions of the device
    written,         \* number of lines written to the device
    distance,        \* maze.ino distance, the last sample of loop
    ports,           \* the SerialPort objects created, in order of creation
    port,            \* main.js port: an index of ports, 0 for undefined
    listing,         \* SerialPort.list() promises of setupSerialPort not yet resolved
    mainWindow       \* main.js mainWindow is not null

storeVars == <<file, fileState, saves>>
rendererVars == <<screen, timerInterval, intervals, startTime, clock, currentPlayer,
                  finishing, startsSent, cmdQueue, leaderboardBody>>
portVars == <<ports, port, listing, mainWindow>>
serialVars == <<portIsOpen, toDevice, toHost, ipcSerial, portVars>>
deviceVars == <<devPc, gameIsActive, finishEmitted, activations, written, distance>>
vars == <<storeVars, rendererVars, serialVars, deviceVars>>

----------------------------------------------------------------------------
(* Bounds *)

MaxTime == 1          \* Date.now() and the elapsed times are 0..MaxTime
MaxApplies == 3       \* applies of the one-at-a-time reducer specification
MaxRuns == 2          \* runs begun in the session specification
MaxLines == 3         \* lines written to the device in the device specification
MaxQueue == 1         \* 'serial:data-received' messages not yet handled
MaxRows == 3          \* rows of the file the leaderboard table is rendered from
MaxBest == 2          \* best times of these rows are 0..MaxBest, or Infinity

(* Values *)

Infinity == (IF MaxTime > MaxBest THEN MaxTime ELSE MaxBest) + 1
Times == 0..MaxTime
Players == {"1", "2"}
Names == {"AMY", "BO"}
Statuses == {"success", "defeat"}
Entries == [name : Names, rollNo : Players, time : Times, status : Statuses]

----------------------------------------------------------------------------
(* main.js: the leaderboard file *)

\* readData, the sanitising of one row.  The cells hold what the handler
\* wrote: a string, numbers and a boolean, on which String, Number and the
\* boolean test change nothing; `player.time ? ... : Infinity` turns a
\* cell holding 0 into Infinity.
SanitizeRow(row) ==
    [name        |-> row.name,
     rollNo      |-> row.rollNo,
     successes   |-> row.successes,
     defeats     |-> row.defeats,
     time        |-> IF row.time = 0 THEN Infinity ELSE row.time,
     hasImproved |-> row.hasImproved]

\* readData: every data row sanitised, rows without a roll number dropped.
ReadData(f) ==
    LET rows == [i \in DOMAIN f |-> SanitizeRow(f[i])]
    IN  SelectSeq(rows, LAMBDA p : p.rollNo # "")

\* FindIndex that finds no row.
FindIndex_NeverFound(data, rollNo) == 0

\* data.findIndex(p => p.rollNo === rollNo); 0 stands for -1.
FindIndex(data, rollNo) ==
    IF \E i \in DOMAIN data : data[i].rollNo = rollNo
    THEN CHOOSE i \in DOMAIN data :
            /\ data[i].rollNo = rollNo
            /\ \A j \in DOMAIN data : data[j].rollNo = rollNo => i <= j
    ELSE 0

\* NewRecord with the elapsed time stored whatever the status.
NewRecord_TimeOnDefeat(newEntry) ==
    [name        |-> newEntry.name,
     rollNo      |-> newEntry.rollNo,
     time        |-> newEntry.time,
     successes   |-> IF newEntry.status = "success" THEN 1 ELSE 0,
     defeats     |-> IF newEntry.status = "defeat" THEN 1 ELSE 0,
     hasImproved |-> newEntry.status = "success"]

\* The record pushed for a player that has no row.
NewRecord(newEntry) ==
    [name        |-> newEntry.name,
     rollNo      |-> newEntry.rollNo,
     time        |-> IF newEntry.status = "success" THEN newEntry.time ELSE Infinity,
     successes   |-> IF newEntry.status = "success" THEN 1 ELSE 0,
     defeats     |-> IF newEntry.status = "defeat" THEN 1 ELSE 0,
     hasImproved |-> newEntry.status = "success"]

\* UpdateRecord with the success counted only inside the improvement test.
UpdateRecord_CountOnImprove(player, newEntry) ==
    IF newEntry.status = "success"
    THEN IF newEntry.time < player.time
         THEN [player EXCEPT !.successes = @ + 1,
                             !.time = newEntry.time,
                             !.name = newEntry.name,
                             !.hasImproved = TRUE]
         ELSE player
    ELSE [player EXCEPT !.defeats = @ + 1]

\* The update of the row of a player that has one.
UpdateRecord(player, newEntry) ==
    IF newEntry.status = "success"
    THEN IF newEntry.time < player.time
         THEN [player EXCEPT !.successes = @ + 1,
                             !.time = newEntry.time,
                             !.name = newEntry.name,
                             !.hasImproved = TRUE]
         ELSE [player EXCEPT !.successes = @ + 1]
    ELSE [player EXCEPT !.defeats = @ + 1]

\* The body of the 'excel:save-data' handler between readData and the write.
ApplyEntry(data, newEntry) ==
    LET idx   == FindIndex(data, newEntry.rollNo)
        reset == [i \in DOMAIN data |-> [data[i] EXCEPT !.hasImproved = FALSE]]
    IN  IF idx > 0
        THEN [reset EXCEPT ![idx] = UpdateRecord(reset[idx], newEntry)]
        ELSE Append(reset, NewRecord(newEntry))

\* readData on the file as it is: [] when the file is missing or empty, and
\* when xlsx.readFile throws.
readData == IF fileState = "ok" THEN ReadData(file) ELSE <<>>

\* ipcMain.handle('excel:save-data') is entered: readData is awaited.
SaveData(newEntry) ==
    saves' = Append(saves, [pc |-> "load", entry |-> newEntry, data |-> <<>>])

\* SaveLoaded returning { success: false } when the file cannot be read.
SaveLoaded_SurfaceError(i) ==
    /\ saves[i].pc = "load"
    /\ saves' = IF fileState = "ok"
                THEN [saves EXCEPT ![i].pc = "persist",
                                   ![i].data = ApplyEntry(readData, saves[i].entry)]
                ELSE [saves EXCEPT ![i].pc = "failed"]
    /\ UNCHANGED <<file, fileState, rendererVars, serialVars, deviceVars>>

\* readData resolves; the handler updates the records and starts the write.
SaveLoaded(i) ==
    /\ saves[i].pc = "load"
    /\ saves' = [saves EXCEPT ![i].pc = "persist",
                              ![i].data = ApplyEntry(readData, saves[i].entry)]
    /\ UNCHANGED <<file, fileState, rendererVars, serialVars, deviceVars>>

\* writeFile resolves: the file holds the handler's rows, { success: true }
\* is returned and the handler's rows are dropped.
SavePersisted(i) ==
    /\ saves[i].pc = "persist"
    /\ file' = saves[i].data
    /\ fileState' = "ok"
    /\ saves' = [saves EXCEPT ![i].pc = "done", ![i].data = <<>>]
    /\ UNCHANGED <<rendererVars, serialVars, deviceVars>>

\* writeFile rejects: the catch of the handler returns { success: false,
\* error }.  The file is as it was when it could not be opened for writing,
\* and is truncated when the write broke off.
SaveFailed(i) ==
    /\ saves[i].pc = "persist"
    /\ saves' = [saves EXCEPT ![i].pc = "failed", ![i].data = <<>>]
    /\ \/ UNCHANGED <<file, fileState>>
       \/ file' = <<>> /\ fileState' = "corrupt"
    /\ UNCHANGED <<rendererVars, serialVars, deviceVars>>

\* What the handler of invocation i has returned.
SaveResult(i) ==
    IF saves[i].pc = "done"
    THEN [success |-> TRUE]
    ELSE [success |-> FALSE, error |-> "error.message"]

InFlight == {i \in DOMAIN saves : saves[i].pc \in {"load", "persist"}}
Done == {i \in DOMAIN saves : saves[i].pc = "done"}

----------------------------------------------------------------------------
(* Initial state *)

\* Everything but the port, when app.whenReady's callback has returned: the
\* window is created and the SerialPort.list() of setupSerialPort is pending.
InitButFileAndPort ==
    /\ fileState = "ok"
    /\ saves = <<>>
    /\ screen = "welcome"
    /\ timerInterval = 0
    /\ intervals = {}
    /\ startTime = -1
    /\ clock = 0
    /\ currentPlayer = [name |-> "", rollNo |-> "", time |-> 0, status |-> "pending"]
    /\ finishing = <<>>
    /\ startsSent = 0
    /\ cmdQueue = <<>>
    /\ leaderboardBody = <<>>
    /\ toDevice = <<>>
    /\ toHost = <<>>
    /\ ipcSerial = <<>>
    /\ devPc = "setup"
    /\ gameIsActive = FALSE
    /\ finishEmitted = 0
    /\ activations = 0
    /\ written = 0
    /\ distance = 0
    /\ ports = <<>>
    /\ port = 0
    /\ listing = 1
    /\ mainWindow = TRUE

\* The file does not exist before the first save.
InitButPort ==
    /\ file = <<>>
    /\ InitButFileAndPort

Init ==
    /\ InitButPort
    /\ portIsOpen = FALSE

----------------------------------------------------------------------------
(* The reducer, one apply at a time *)

\* An apply is issued when the previous one has returned.
Apply(newEntry) ==
    /\ InFlight = {}
    /\ Len(saves) < MaxApplies
    /\ SaveData(newEntry)
    /\ UNCHANGED <<file, fileState, rendererVars, serialVars, deviceVars>>

NextReducer ==
    \/ \E newEntry \in Entries : Apply(newEntry)
    \/ \E i \in DOMAIN saves : SaveLoaded(i)
    \/ \E i \in DOMAIN saves : SavePersisted(i)

SpecReducer == Init /\ [][NextReducer]_vars

----------------------------------------------------------------------------
(* The reducer, its invocations interleaved *)

\* 'excel:save-data' is invoked, whatever the invocations under way.
Invoke(newEntry) ==
    /\ Len(saves) < MaxApplies
    /\ SaveData(newEntry)
    /\ UNCHANGED <<file, fileState, rendererVars, serialVars, deviceVars>>

NextInterleaved ==
    \/ \E newEntry \in {e \in Entries : e.name = "AMY" /\ e.time = MaxTime} :
           Invoke(newEntry)
    \/ \E i \in DOMAIN saves : SaveLoaded(i)
    \/ \E i \in DOMAIN saves : SavePersisted(i)

SpecInterleaved == Init /\ [][NextInterleaved]_vars

----------------------------------------------------------------------------
(* The reducer, one apply at a time, on a file system that fails *)

StoreFaults == {"missing", "empty", "corrupt"}

\* The file is deleted, truncated or overwritten by something else.
Damage(fault) ==
    /\ fileState' = fault
    /\ file' = <<>>
    /\ UNCHANGED <<saves, rendererVars, serialVars, deviceVars>>

NextStore ==
    \/ \E newEntry \in {e \in Entries : e.name = "AMY" /\ e.time = MaxTime} :
           Apply(newEntry)
    \/ \E i \in DOMAIN saves : SaveLoaded(i)
    \/ \E i \in DOMAIN saves : SavePersisted(i)
    \/ \E i \in DOMAIN saves : SaveFailed(i)
    \/ \E fault \in StoreFaults : Damage(fault)

SpecStore == Init /\ [][NextStore]_vars

----------------------------------------------------------------------------
(* Lines of the serial link.  A line is what stands before the '\n'. *)

\* String.prototype.trim and Arduino's String::trim on the lines of the model.
Trim(s) ==
    CASE s = "FINISH\r" -> "FINISH"
      [] s = "Game Started!\r" -> "Game Started!"
      [] s = "Arduino Ready.\r" -> "Arduino Ready."
      [] s = " START\r" -> "START"
      [] s = " " -> ""
      [] OTHER -> s

\* String.prototype.toUpperCase on the names of the model.
ToUpperCase(s) ==
    CASE s = "amy" -> "AMY"
      [] s = "Bo" -> "BO"
      [] OTHER -> s

NameInputs == {" ", "amy"}          \* inputs.name.value
RollNoInputs == {"", "1", "2"}      \* inputs.rollNo.value
DeviceLines == {"START", " START\r", "start", "STOP"}     \* lines sent to the device
HostLines == {"FINISH\r", "Game Started!\r"}             \* lines it prints

----------------------------------------------------------------------------
(* maze.ino *)

FALL_THRESHOLD == 5
Durations == {0, 100, 290, 300}     \* results of pulseIn, in microseconds

\* long distance = duration * 0.034 / 2
getDistance(duration) == (duration * 34) \div 2000

\* FallTest without `distance > 0`.
FallTest_ZeroFalls(d) == d < FALL_THRESHOLD

\* distance > 0 && distance < FALL_THRESHOLD
FallTest(d) == d > 0 /\ d < FALL_THRESHOLD

\* Serial.println: the line and "\r\n"; nothing reaches a port that is not open.
Println(line) ==
    toHost' = IF portIsOpen THEN Append(toHost, line) ELSE toHost

\* setup
DeviceSetup ==
    /\ devPc = "setup"
    /\ Println("Arduino Ready.\r")
    /\ devPc' = "serial"
    /\ UNCHANGED <<gameIsActive, finishEmitted, activations, written, distance>>
    /\ UNCHANGED <<storeVars, rendererVars, portVars, portIsOpen, toDevice, ipcSerial>>

\* LoopSerial starting the game on any line.
LoopSerial_AnyLine ==
    /\ devPc = "serial"
    /\ devPc' = "game"
    /\ IF toDevice # <<>>
       THEN /\ toDevice' = Tail(toDevice)
            /\ IF ~gameIsActive
               THEN /\ gameIsActive' = TRUE
                    /\ activations' = activations + 1
                    /\ Println("Game Started!\r")
               ELSE UNCHANGED <<gameIsActive, activations, toHost>>
       ELSE UNCHANGED <<toDevice, gameIsActive, activations, toHost>>
    /\ UNCHANGED <<finishEmitted, written, distance>>
    /\ UNCHANGED <<storeVars, rendererVars, portVars, portIsOpen, ipcSerial>>

\* loop, first block: a command is read when one is available.
LoopSerial ==
    /\ devPc = "serial"
    /\ devPc' = "game"
    /\ IF toDevice # <<>>
       THEN /\ toDevice' = Tail(toDevice)
            /\ IF Trim(Head(toDevice)) = "START" /\ ~gameIsActive
               THEN /\ gameIsActive' = TRUE
                    /\ activations' = activations + 1
                    /\ Println("Game Started!\r")
               ELSE UNCHANGED <<gameIsActive, activations, toHost>>
       ELSE UNCHANGED <<toDevice, gameIsActive, activations, toHost>>
    /\ UNCHANGED <<finishEmitted, written, distance>>
    /\ UNCHANGED <<storeVars, rendererVars, portVars, portIsOpen, ipcSerial>>

\* LoopGame without the reset of gameIsActive.
LoopGame_NoReset(duration) ==
    /\ devPc = "game"
    /\ devPc' = "serial"
    /\ IF gameIsActive
       THEN /\ distance' = getDistance(duration)
            /\ IF FallTest(distance')
               THEN /\ finishEmitted < MaxLines
                    /\ finishEmitted' = finishEmitted + 1
                    /\ Println("FINISH\r")
               ELSE UNCHANGED <<finishEmitted, toHost>>
       ELSE UNCHANGED <<distance, finishEmitted, toHost>>
    /\ UNCHANGED <<gameIsActive, activations, written>>
    /\ UNCHANGED <<storeVars, rendererVars, portVars, portIsOpen, toDevice, ipcSerial>>

\* loop, second block: while the game is active the distance is sampled, and
\* a sample above 0 and below the threshold ends the game.
LoopGame(duration) ==
    /\ devPc = "game"
    /\ devPc' = "serial"
    /\ IF gameIsActive
       THEN /\ distance' = getDistance(duration)
            /\ IF FallTest(distance')
               THEN /\ gameIsActive' = FALSE
                    /\ finishEmitted' = finishEmitted + 1
                    /\ Println("FINISH\r")
               ELSE UNCHANGED <<gameIsActive, finishEmitted, toHost>>
       ELSE UNCHANGED <<distance, gameIsActive, finishEmitted, toHost>>
    /\ UNCHANGED <<activations, written>>
    /\ UNCHANGED <<storeVars, rendererVars, portVars, portIsOpen, toDevice, ipcSerial>>

----------------------------------------------------------------------------
(* The device alone, fed with lines *)

\* The port is open, so that what the device prints is kept.
InitDevice ==
    /\ InitButPort
    /\ portIsOpen = TRUE

\* A line arrives at the device's serial input.
WriteLine(line) ==
    /\ written < MaxLines
    /\ written' = written + 1
    /\ toDevice' = Append(toDevice, line)
    /\ UNCHANGED <<devPc, gameIsActive, finishEmitted, activations, distance>>
    /\ UNCHANGED <<storeVars, rendererVars, portVars, portIsOpen, toHost, ipcSerial>>

NextDevice ==
    \/ DeviceSetup
    \/ \E line \in DeviceLines : WriteLine(line)
    \/ LoopSerial
    \/ \E duration \in Durations : LoopGame(duration)

SpecDevice == InitDevice /\ [][NextDevice]_vars

----------------------------------------------------------------------------
(* renderer.js: the leaderboard table *)

TopN == 10

\* Array.prototype.sort with (a, b) => a.time - b.time, which is stable:
\* a row goes after the rows whose time is not above its own.
RECURSIVE SortByTime(_)
SortByTime(rows) ==
    IF rows = <<>>
    THEN <<>>
    ELSE LET last   == rows[Len(rows)]
             sorted == SortByTime(SubSeq(rows, 1, Len(rows) - 1))
         IN  SelectSeq(sorted, LAMBDA p : p.time <= last.time)
                 \o <<last>>
                 \o SelectSeq(sorted, LAMBDA p : p.time > last.time)

\* renderLeaderboard with every row kept.
renderLeaderboard_NoFilter(data) ==
    LET sortedData == SortByTime(data)
        top10      == SubSeq(sortedData, 1,
                             IF Len(sortedData) < TopN THEN Len(sortedData) ELSE TopN)
    IN  [i \in DOMAIN top10 |-> [name   |-> top10[i].name,
                                 rollNo |-> top10[i].rollNo,
                                 time   |-> top10[i].time]]

\* renderLeaderboard: the rows appended to leaderboardBody, whose rank is
\* their place; none when no row has a finite time.
renderLeaderboard(data) ==
    LET sortedData == SortByTime(SelectSeq(data, LAMBDA p : p.time # Infinity))
        top10      == SubSeq(sortedData, 1,
                             IF Len(sortedData) < TopN THEN Len(sortedData) ELSE TopN)
    IN  [i \in DOMAIN top10 |-> [name   |-> top10[i].name,
                                 rollNo |-> top10[i].rollNo,
                                 time   |-> top10[i].time]]

\* The files of earlier sessions: at most one row for a roll number, a
\* row holding a finite best time when it counts a success and Infinity
\* when it counts none.
RankedRows ==
    {r \in [name : {"AMY"}, rollNo : {ToString(n) : n \in 1..MaxRows},
            time : (0..MaxBest) \cup {Infinity}, successes : {0, 1},
            defeats : {0, 1}, hasImproved : {FALSE}] :
        /\ r.successes = 0 <=> r.time = Infinity
        /\ r.defeats = 1 - r.successes}

RankedFiles ==
    UNION {{f \in [1..n -> RankedRows] :
               \A i, j \in 1..n : f[i].rollNo = f[j].rollNo => i = j} : n \in 0..MaxRows}

InitRank ==
    /\ file \in RankedFiles
    /\ InitButFileAndPort
    /\ portIsOpen = FALSE

----------------------------------------------------------------------------
(* renderer.js: the session timer *)

\* handleStartTrial, with the values of the two inputs.
HandleStartTrial(nameInput, rollNoInput) ==
    LET name   == Trim(nameInput)
        rollNo == Trim(rollNoInput)
    IN  /\ IF name = "" \/ rollNo = ""
           THEN UNCHANGED <<currentPlayer, cmdQueue, startsSent, screen,
                            startTime, timerInterval, intervals>>
           ELSE /\ startsSent < MaxRuns
                /\ currentPlayer' = [currentPlayer EXCEPT !.name = ToUpperCase(name),
                                                          !.rollNo = rollNo]
                /\ cmdQueue' = Append(cmdQueue, "START")
                /\ startsSent' = startsSent + 1
                /\ screen' = "game"
                \* startTimer
                /\ startTime' = clock
                /\ timerInterval' = startsSent + 1
                /\ intervals' = intervals \cup {startsSent + 1}
        /\ UNCHANGED <<clock, leaderboardBody, finishing>>
        /\ UNCHANGED <<storeVars, serialVars, deviceVars>>

\* FinishGame without `if (!timerInterval) return`.
FinishGame_NoGuard(status) ==
    /\ intervals' = intervals \ {timerInterval}
    /\ timerInterval' = 0
    /\ currentPlayer' = [currentPlayer EXCEPT !.time = clock - startTime,
                                              !.status = status]
    /\ SaveData(currentPlayer')
    /\ finishing' = Append(finishing, [pc |-> "awaitSave", status |-> status,
                                          panel |-> "hidden"])

\* finishGame(status) up to its first await: the guard, the stop of the
\* clock and the call of saveData(currentPlayer).
FinishGame(status) ==
    IF timerInterval = 0
    THEN UNCHANGED <<timerInterval, intervals, currentPlayer, finishing, saves>>
    ELSE /\ intervals' = intervals \ {timerInterval}
         /\ timerInterval' = 0
         /\ currentPlayer' = [currentPlayer EXCEPT !.time = clock - startTime,
                                                   !.status = status]
         /\ SaveData(currentPlayer')
         /\ finishing' = Append(finishing, [pc |-> "awaitSave", status |-> status,
                                          panel |-> "hidden"])

\* click on simulation-finish-button
SimulateFinish ==
    /\ FinishGame("success")
    /\ UNCHANGED <<file, fileState, screen, startTime, clock, leaderboardBody, startsSent, cmdQueue>>
    /\ UNCHANGED <<serialVars, deviceVars>>

\* AcceptDefeat calling finishGame('success').
AcceptDefeat_AsSuccess ==
    /\ FinishGame("success")
    /\ UNCHANGED <<file, fileState, screen, startTime, clock, leaderboardBody, startsSent, cmdQueue>>
    /\ UNCHANGED <<serialVars, deviceVars>>

\* click on accept-defeat-button
AcceptDefeat ==
    /\ FinishGame("defeat")
    /\ UNCHANGED <<file, fileState, screen, startTime, clock, leaderboardBody, startsSent, cmdQueue>>
    /\ UNCHANGED <<serialVars, deviceVars>>

\* The listener of 'serial:data-received'.
OnSerialData ==
    /\ ipcSerial # <<>>
    /\ ipcSerial' = Tail(ipcSerial)
    /\ IF /\ Head(ipcSerial) # ""
          /\ screen = "game"
          /\ Trim(Head(ipcSerial)) = "FINISH"
       THEN FinishGame("success")
       ELSE UNCHANGED <<timerInterval, intervals, currentPlayer, finishing, saves>>
    /\ UNCHANGED <<file, fileState, screen, startTime, clock, leaderboardBody, startsSent, cmdQueue>>
    /\ UNCHANGED <<portIsOpen, toDevice, toHost, portVars, deviceVars>>

\* finishGame resumes after saveData, whose result is dropped:
\* loadAndDisplayData is awaited.
FinishSaved(i) ==
    /\ finishing[i].pc = "awaitSave"
    /\ saves[i].pc \in {"done", "failed"}
    /\ finishing' = [finishing EXCEPT ![i].pc = "awaitLoad"]
    /\ UNCHANGED <<screen, timerInterval, intervals, startTime, clock, leaderboardBody, currentPlayer,
                   startsSent, cmdQueue>>
    /\ UNCHANGED <<storeVars, serialVars, deviceVars>>

\* finishGame resumes after loadAndDisplayData, whose rows are rendered:
\* the results panel is shown with the final time and the text
\* of the outcome, and the leaderboard screen with it.
FinishLoaded(i) ==
    /\ finishing[i].pc = "awaitLoad"
    /\ leaderboardBody' = renderLeaderboard(readData)
    /\ screen' = "leaderboard"
    /\ finishing' = [finishing EXCEPT ![i].pc = "done", ![i].panel = "results"]
    /\ UNCHANGED <<timerInterval, intervals, startTime, clock, currentPlayer,
                   startsSent, cmdQueue>>
    /\ UNCHANGED <<storeVars, serialVars, deviceVars>>

\* click on view-leaderboard-button: switchScreen, then loadAndDisplayData,
\* whose rows are rendered.
ViewLeaderboard ==
    /\ screen' = "leaderboard"
    /\ leaderboardBody' = renderLeaderboard(readData)
    /\ UNCHANGED <<timerInterval, intervals, startTime, clock, currentPlayer,
                   finishing, startsSent, cmdQueue>>
    /\ UNCHANGED <<storeVars, serialVars, deviceVars>>

\* click on play-again-button; the inputs it clears are chosen anew at each
\* handleStartTrial.
PlayAgain ==
    /\ screen' = "welcome"
    /\ UNCHANGED <<timerInterval, intervals, startTime, clock, leaderboardBody, currentPlayer, finishing,
                   startsSent, cmdQueue>>
    /\ UNCHANGED <<storeVars, serialVars, deviceVars>>

\* click on back-button
Back ==
    /\ screen' = "welcome"
    /\ UNCHANGED <<timerInterval, intervals, startTime, clock, leaderboardBody, currentPlayer, finishing,
                   startsSent, cmdQueue>>
    /\ UNCHANGED <<storeVars, serialVars, deviceVars>>

\* Tick ending the run that is timed.
Tick_Timeout ==
    /\ clock < MaxTime
    /\ clock' = clock + 1
    /\ timerInterval' = 0
    /\ intervals' = {}
    /\ UNCHANGED <<leaderboardBody, screen, startTime, currentPlayer, finishing, startsSent, cmdQueue>>
    /\ UNCHANGED <<storeVars, serialVars, deviceVars>>

\* Date.now() advances.
Tick ==
    /\ clock < MaxTime
    /\ clock' = clock + 1
    /\ UNCHANGED <<leaderboardBody, screen, timerInterval, intervals, startTime, currentPlayer, finishing,
                   startsSent, cmdQueue>>
    /\ UNCHANGED <<storeVars, serialVars, deviceVars>>

----------------------------------------------------------------------------
(* main.js: the serial port *)

\* The port created by setupSerialPort opens.
SerialOpen ==
    /\ ~portIsOpen
    /\ portIsOpen' = TRUE
    /\ UNCHANGED <<toDevice, toHost, ipcSerial, portVars>>
    /\ UNCHANGED <<storeVars, rendererVars, deviceVars>>

\* setupSerialPort up to its return: SerialPort.list() is called and its
\* promise is left pending.
setupSerialPort == listing' = listing + 1

\* SerialSendCommand writing the command whether a port is open or not.
SerialSendCommand_WriteAnyway ==
    /\ cmdQueue # <<>>
    /\ cmdQueue' = Tail(cmdQueue)
    /\ toDevice' = Append(toDevice, Head(cmdQueue))
    /\ written' = written + 1
    /\ IF portIsOpen THEN UNCHANGED listing ELSE setupSerialPort
    /\ UNCHANGED <<screen, timerInterval, intervals, startTime, clock, leaderboardBody, currentPlayer,
                   finishing, startsSent>>
    /\ UNCHANGED <<devPc, gameIsActive, finishEmitted, activations, distance>>
    /\ UNCHANGED <<storeVars, portIsOpen, toHost, ipcSerial, ports, port, mainWindow>>

\* ipcMain.on('serial:send-command'): the command is written to an open
\* port; otherwise it is dropped and setupSerialPort is called.
SerialSendCommand ==
    /\ cmdQueue # <<>>
    /\ cmdQueue' = Tail(cmdQueue)
    /\ IF portIsOpen
       THEN /\ toDevice' = Append(toDevice, Head(cmdQueue))
            /\ written' = written + 1
            /\ UNCHANGED listing
       ELSE /\ UNCHANGED <<toDevice, written>>
            /\ setupSerialPort
    /\ UNCHANGED <<screen, timerInterval, intervals, startTime, clock, leaderboardBody, currentPlayer,
                   finishing, startsSent>>
    /\ UNCHANGED <<devPc, gameIsActive, finishEmitted, activations, distance>>
    /\ UNCHANGED <<storeVars, portIsOpen, toHost, ipcSerial, ports, port, mainWindow>>

\* parser.on('data') with the line data: when there is a window the line is
\* trimmed and sent to it.
ParserOnData(data) ==
    ipcSerial' = IF mainWindow THEN Append(ipcSerial, Trim(data)) ELSE ipcSerial

\* A line of the device arrives at the open port.
SerialData(data) ==
    /\ portIsOpen
    /\ Len(ipcSerial) < MaxQueue
    /\ ParserOnData(data)
    /\ UNCHANGED <<portIsOpen, toDevice, toHost, portVars>>
    /\ UNCHANGED <<storeVars, rendererVars, deviceVars>>

\* The line at the head of what the device printed arrives at the open port.
SerialLine ==
    /\ portIsOpen
    /\ toHost # <<>>
    /\ Len(ipcSerial) < MaxQueue
    /\ toHost' = Tail(toHost)
    /\ ParserOnData(Head(toHost))
    /\ UNCHANGED <<portIsOpen, toDevice, portVars>>
    /\ UNCHANGED <<storeVars, rendererVars, deviceVars>>

----------------------------------------------------------------------------
(* The session: renderer and main process, the device's lines as input *)

Next ==
    \/ \E nameInput \in NameInputs, rollNoInput \in RollNoInputs :
           HandleStartTrial(nameInput, rollNoInput)
    \/ SimulateFinish
    \/ AcceptDefeat
    \/ OnSerialData
    \/ \E i \in DOMAIN finishing : FinishSaved(i)
    \/ \E i \in DOMAIN finishing : FinishLoaded(i)
    \/ ViewLeaderboard
    \/ PlayAgain
    \/ Back
    \/ Tick
    \/ \E i \in DOMAIN saves : SaveLoaded(i)
    \/ \E i \in DOMAIN saves : SavePersisted(i)
    \/ \E i \in DOMAIN saves : SaveFailed(i)
    \/ SerialOpen
    \/ SerialSendCommand
    \/ \E data \in HostLines : SerialData(data)

Spec == Init /\ [][Next]_vars

----------------------------------------------------------------------------
(* The session timer: the session up to the calls of saveData.  Left out
   are the handler of 'excel:save-data' and what finishGame does after its
   awaits, which change the file, the pending calls and, as ViewLeaderboard
   does, the screen shown; and the writes to the port. *)

NextTimer ==
    \/ \E nameInput \in NameInputs, rollNoInput \in RollNoInputs :
           HandleStartTrial(nameInput, rollNoInput)
    \/ SimulateFinish
    \/ AcceptDefeat
    \/ OnSerialData
    \/ ViewLeaderboard
    \/ PlayAgain
    \/ Back
    \/ Tick
    \/ SerialOpen
    \/ \E data \in HostLines : SerialData(data)

SpecTimer == Init /\ [][NextTimer]_vars

----------------------------------------------------------------------------
(* The two readers of lines, each fed with lines: the device with the lines
   of DeviceLines, the listener of the renderer with the lines the device
   prints and with lines it does not print.  The ball does not fall: every
   echo of the sensor is one of 300 microseconds. *)

NextLines ==
    \/ DeviceSetup
    \/ \E line \in DeviceLines : WriteLine(line)
    \/ LoopSerial
    \/ \E duration \in {300} : LoopGame(duration)
    \/ HandleStartTrial("amy", "1")
    \/ SerialOpen
    \/ \E data \in HostLines \cup {"Arduino Ready.\r", "finish"} : SerialData(data)
    \/ OnSerialData

SpecLines == Init /\ [][NextLines]_vars

----------------------------------------------------------------------------
(* main.js: the SerialPort objects *)

Paths == {"COM3", "COM4"}     \* paths under which SerialPort.list() reports an Arduino

\* port && port.isOpen, which is false while the port opens or closes.
IsOpen(ps, p) == p # 0 /\ ps[p].state = "open"

\* The ports that are open or opening.
Connections == {k \in DOMAIN ports : ports[k].state \in {"opening", "open"}}

\* createNewPort: a SerialPort is constructed, which starts to open.
createNewPort(ps, portPath) ==
    Append(ps, [path |-> portPath, state |-> "opening", next |-> ""])

\* connectToPort: an open port is closed, createNewPort being the callback
\* of the close; otherwise createNewPort is called at once.
connectToPort(portPath) ==
    IF IsOpen(ports, port)
    THEN /\ ports' = [ports EXCEPT ![port].state = "closing", ![port].next = portPath]
         /\ port' = port
    ELSE /\ ports' = createNewPort(ports, portPath)
         /\ port' = Len(ports) + 1

\* The promise of SerialPort.list() resolves; found is the path of the first
\* port whose manufacturer matches, "" when there is none.
ListResolved(found) ==
    /\ listing > 0
    /\ listing' = listing - 1
    /\ IF found = "" THEN UNCHANGED <<ports, port>> ELSE connectToPort(found)
    /\ portIsOpen' = IsOpen(ports', port')
    /\ UNCHANGED <<toDevice, toHost, ipcSerial, mainWindow>>
    /\ UNCHANGED <<storeVars, rendererVars, deviceVars>>

\* port.on('open'): the open succeeds, which takes that no other SerialPort
\* holds the path.
PortOpened(k) ==
    /\ ports[k].state = "opening"
    /\ \A j \in DOMAIN ports :
           (j # k /\ ports[j].path = ports[k].path) =>
               ports[j].state \notin {"open", "closing"}
    /\ ports' = [ports EXCEPT ![k].state = "open"]
    /\ portIsOpen' = IsOpen(ports', port)
    /\ UNCHANGED <<port, listing, mainWindow, toDevice, toHost, ipcSerial>>
    /\ UNCHANGED <<storeVars, rendererVars, deviceVars>>

\* port.on('error'): the open fails.
PortError(k) ==
    /\ ports[k].state = "opening"
    /\ ports' = [ports EXCEPT ![k].state = "failed"]
    /\ portIsOpen' = IsOpen(ports', port)
    /\ UNCHANGED <<port, listing, mainWindow, toDevice, toHost, ipcSerial>>
    /\ UNCHANGED <<storeVars, rendererVars, deviceVars>>

\* The callback of port.close in connectToPort: createNewPort.
PortClosed(k) ==
    /\ ports[k].state = "closing"
    /\ ports' = createNewPort([ports EXCEPT ![k].state = "closed"], ports[k].next)
    /\ port' = Len(ports) + 1
    /\ portIsOpen' = IsOpen(ports', port')
    /\ UNCHANGED <<listing, mainWindow, toDevice, toHost, ipcSerial>>
    /\ UNCHANGED <<storeVars, rendererVars, deviceVars>>

\* port.on('close') of an open port: the device is unplugged.
PortLost(k) ==
    /\ ports[k].state = "open"
    /\ ports' = [ports EXCEPT ![k].state = "closed"]
    /\ portIsOpen' = IsOpen(ports', port)
    /\ UNCHANGED <<port, listing, mainWindow, toDevice, toHost, ipcSerial>>
    /\ UNCHANGED <<storeVars, rendererVars, deviceVars>>

\* The device prints a line while a SerialPort is open.
DevicePrints(line) ==
    /\ \E k \in DOMAIN ports : ports[k].state = "open"
    /\ Len(toHost) < MaxQueue
    /\ toHost' = Append(toHost, line)
    /\ UNCHANGED <<portIsOpen, toDevice, ipcSerial, portVars>>
    /\ UNCHANGED <<storeVars, rendererVars, deviceVars>>

\* The parser of the open port k emits the line that arrived first.
PortData(k) ==
    /\ ports[k].state = "open"
    /\ toHost # <<>>
    /\ Len(ipcSerial) < MaxQueue
    /\ toHost' = Tail(toHost)
    /\ ParserOnData(Head(toHost))
    /\ UNCHANGED <<portIsOpen, toDevice, portVars>>
    /\ UNCHANGED <<storeVars, rendererVars, deviceVars>>

\* mainWindow.on('closed') where the application goes on without a window
\* (darwin): the messages on their way to the window are lost with it.
WindowClosed ==
    /\ mainWindow
    /\ mainWindow' = FALSE
    /\ ipcSerial' = <<>>
    /\ UNCHANGED <<portIsOpen, toDevice, toHost, ports, port, listing>>
    /\ UNCHANGED <<storeVars, rendererVars, deviceVars>>

\* The renderer's handlers run while there is a window.
NextSerial ==
    \/ mainWindow /\ HandleStartTrial("amy", "1")
    \/ SerialSendCommand
    \/ \E found \in Paths \cup {""} : ListResolved(found)
    \/ \E k \in DOMAIN ports : PortOpened(k)
    \/ \E k \in DOMAIN ports : PortError(k)
    \/ \E k \in DOMAIN ports : PortClosed(k)
    \/ \E k \in DOMAIN ports : PortLost(k)
    \/ \E line \in {"FINISH\r"} : DevicePrints(line)
    \/ \E k \in DOMAIN ports : PortData(k)
    \/ mainWindow /\ OnSerialData
    \/ WindowClosed

SpecSerial == Init /\ [][NextSerial]_vars

----------------------------------------------------------------------------
(* Properties of the reducer, one apply at a time (SpecReducer) *)

\* The applies that have returned are saves[1..NumApplied].
NumApplied == Cardinality(Done)

\* Among the first n applies, those of player p with the given status.
AppliesOf(p, status, n) ==
    {i \in 1..n : saves[i].entry.rollNo = p /\ saves[i].entry.status = status}

\* The minimum elapsed time of p's SUCCESS outcomes among the first n
\* applies, Infinity when there is none.
BestOf(p, n) ==
    LET ts == {saves[i].entry.time : i \in AppliesOf(p, "success", n)}
    IN  IF ts = {} THEN Infinity
        ELSE CHOOSE t \in ts : \A u \in ts : t <= u

RowsOf(f, p) == {k \in DOMAIN f : f[k].rollNo = p}

\* C1: after any sequence of applies on a store that starts empty, the best
\* time read back for every player is the minimum elapsed time of the
\* player's SUCCESS outcomes applied so far (0 included), and Infinity when
\* the player has none.
C1_BestTimeIsMinimum ==
    LET data == ReadData(file)
    IN  \A k \in DOMAIN data : data[k].time = BestOf(data[k].rollNo, NumApplied)

\* C4: after N applies for a player, the player has one record, whose
\* successes is the number of SUCCESS outcomes and whose defeats is the
\* number of DEFEAT outcomes applied for that player (so they add up to N),
\* whatever was applied for other players; a player without applies has no
\* record.
C4_CountersMatchOutcomes ==
    \A p \in Players :
        LET s == Cardinality(AppliesOf(p, "success", NumApplied))
            d == Cardinality(AppliesOf(p, "defeat", NumApplied))
        IN  IF s + d = 0
            THEN RowsOf(file, p) = {}
            ELSE /\ Cardinality(RowsOf(file, p)) = 1
                 /\ \A k \in RowsOf(file, p) :
                        /\ file[k].successes = s
                        /\ file[k].defeats = d
                        /\ file[k].successes + file[k].defeats = s + d

\* Three applies have returned: a success and a defeat of one player and an
\* apply of the other player.
C4_Witness ==
    /\ NumApplied = 3
    /\ AppliesOf("1", "success", 3) # {}
    /\ AppliesOf("1", "defeat", 3) # {}
    /\ RowsOf(file, "2") # {}

\* C5: after every apply at most one record has hasImproved = true, and a
\* record has it true exactly when it is the record of the applied outcome's
\* player and the outcome was a SUCCESS below the player's best time so far
\* or the player's first success; a SUCCESS with a time equal to the best
\* time leaves it false.
C5_ImprovedFlagExact ==
    NumApplied >= 1 =>
        LET e == saves[NumApplied].entry
            improving == /\ e.status = "success"
                         /\ e.time < BestOf(e.rollNo, NumApplied - 1)
        IN  /\ Cardinality({k \in DOMAIN file : file[k].hasImproved}) <= 1
            /\ \A k \in DOMAIN file :
                   file[k].hasImproved <=> (file[k].rollNo = e.rollNo /\ improving)

\* The write of invocation i completes in this step.
Persists(i) == saves[i].pc = "persist" /\ saves'[i].pc = "done"

\* C6: applying a DEFEAT outcome changes no record's best time (a record it
\* creates has the no-success sentinel), leaves no record with hasImproved =
\* true, and of the outcome's player changes only defeats, by one.
C6_DefeatFrame ==
    [][\A i \in DOMAIN saves :
          (Persists(i) /\ saves[i].entry.status = "defeat") =>
              LET p == saves[i].entry.rollNo
              IN  /\ \A k \in DOMAIN file' : ~file'[k].hasImproved
                  /\ \A k \in DOMAIN file :
                         /\ k \in DOMAIN file'
                         /\ file'[k].rollNo = file[k].rollNo
                         /\ file'[k].time = file[k].time
                         /\ file'[k].successes = file[k].successes
                         /\ file'[k].defeats =
                                file[k].defeats + (IF file[k].rollNo = p THEN 1 ELSE 0)
                  /\ \A k \in DOMAIN file' \ DOMAIN file :
                         /\ file'[k].time = Infinity
                         /\ file'[k].defeats = 1
      ]_vars

\* C7: an apply for a player without a record adds exactly one record, the
\* last one: {name, rollNo, time = t, successes = 1, defeats = 0, hasImproved
\* = true} for a SUCCESS with elapsed time t, and {name, rollNo, time =
\* Infinity, successes = 0, defeats = 1, hasImproved = false} for a DEFEAT.
C7_NewPlayerRecord ==
    [][\A i \in DOMAIN saves :
          (Persists(i) /\ RowsOf(file, saves[i].entry.rollNo) = {}) =>
              LET e == saves[i].entry
                  n == Len(file')
              IN  /\ n = Len(file) + 1
                  /\ RowsOf(file', e.rollNo) = {n}
                  /\ file'[n] =
                        IF e.status = "success"
                        THEN [name |-> e.name, rollNo |-> e.rollNo, time |-> e.time,
                              successes |-> 1, defeats |-> 0, hasImproved |-> TRUE]
                        ELSE [name |-> e.name, rollNo |-> e.rollNo, time |-> Infinity,
                              successes |-> 0, defeats |-> 1, hasImproved |-> FALSE]
      ]_vars

\* A first SUCCESS of one player, then a first DEFEAT of the other, have both
\* been written.
C7_Witness ==
    /\ Done = {1, 2}
    /\ saves[1].entry.status = "success"
    /\ saves[2].entry.status = "defeat"
    /\ saves[1].entry.rollNo # saves[2].entry.rollNo
    /\ Len(file) = 2

\* C25: the write of an apply for player p leaves every row of another
\* player in place with its roll number, name, best time, successes and
\* defeats, its hasImproved being false afterwards; and the name in p's own
\* row changes only when the outcome is a SUCCESS with a time below the best
\* time the row held.
C25_OtherRecordsFrame ==
    [][\A i \in DOMAIN saves :
          Persists(i) =>
              LET e == saves[i].entry
              IN  \A k \in DOMAIN file :
                      /\ k \in DOMAIN file'
                      /\ file'[k].rollNo = file[k].rollNo
                      /\ file[k].rollNo # e.rollNo =>
                             /\ file'[k].name = file[k].name
                             /\ file'[k].time = file[k].time
                             /\ file'[k].successes = file[k].successes
                             /\ file'[k].defeats = file[k].defeats
                             /\ ~file'[k].hasImproved
                      /\ (file[k].rollNo = e.rollNo /\ file'[k].name # file[k].name) =>
                             /\ e.status = "success"
                             /\ e.time < file[k].time
      ]_vars

\* C18: an apply that has returned success has returned the records it
\* wrote to the file.
C18_ApplyReturnsRecords ==
    NumApplied >= 1 =>
        LET result == SaveResult(NumApplied)
        IN  /\ result.success
            /\ "data" \in DOMAIN result
            /\ result.data = file

\* C19: the best time read back for a player after a step is never above
\* the best time the file held for that player before it.
C19_BestTimeNeverIncreases ==
    [][\A k \in DOMAIN file :
          LET data == ReadData(file')
          IN  \A r \in DOMAIN data :
                  data[r].rollNo = file[k].rollNo => data[r].time <= file[k].time
      ]_vars

----------------------------------------------------------------------------
(* Properties of the reducer on a file system that fails (SpecStore) *)

\* C16: when the file is missing, empty or unreadable the load of an apply
\* returns no records, so that the handler goes on to write the record of
\* its outcome alone; no apply fails but by its write; and every write that
\* completes leaves a readable file with a record of the applied player.
C16_ReadFailureIsEmptySet ==
    [][\A i \in DOMAIN saves :
          /\ (saves[i].pc = "load" /\ saves'[i] # saves[i] /\ fileState # "ok") =>
                 /\ saves'[i].pc = "persist"
                 /\ saves'[i].data = <<NewRecord(saves[i].entry)>>
          /\ (saves[i].pc # "failed" /\ saves'[i].pc = "failed") =>
                 saves[i].pc = "persist"
          /\ Persists(i) =>
                 /\ fileState' = "ok"
                 /\ RowsOf(ReadData(file'), saves[i].entry.rollNo) # {}
                 /\ SaveResult(i)'.success
      ]_vars

\* A player was applied and written, the file was lost, and the apply of
\* another player has returned success: the file holds that player alone.
C16_Witness ==
    /\ Done = {1, 2}
    /\ saves[1].entry.rollNo = "1"
    /\ saves[2].entry.rollNo = "2"
    /\ fileState = "ok"
    /\ Len(file) = 1
    /\ file[1].rollNo = "2"

----------------------------------------------------------------------------
(* Properties of the reducer, its invocations interleaved (SpecInterleaved) *)

\* C26: whatever the interleaving of the invocations, no two rows of the
\* file, and no two records read back from it, have the same roll number.
C26_UniquePlayerId ==
    /\ \A p \in Players : Cardinality(RowsOf(file, p)) <= 1
    /\ \A p \in Players : Cardinality(RowsOf(ReadData(file), p)) <= 1

\* Two invocations for one player have interleaved, the second write
\* replacing the first, and an invocation for the other player has followed:
\* the file has one row for each.
C26_Witness ==
    /\ Done = {1, 2, 3}
    /\ saves[1].entry.rollNo = "1"
    /\ saves[2].entry.rollNo = "1"
    /\ saves[3].entry.rollNo = "2"
    /\ Len(file) = 2
    /\ file[1].successes + file[1].defeats = 1

----------------------------------------------------------------------------
(* Host and device, linked by the port: what the renderer sends is written
   to the device, what the device prints is parsed and sent to the renderer.
   The player begins runs and concedes them, and the ball falls or not. *)

NextLink ==
    \/ HandleStartTrial("amy", "1")
    \/ AcceptDefeat
    \/ OnSerialData
    \/ \E i \in DOMAIN finishing : FinishSaved(i)
    \/ \E i \in DOMAIN finishing : FinishLoaded(i)
    \/ PlayAgain
    \/ \E i \in DOMAIN saves : SaveLoaded(i)
    \/ \E i \in DOMAIN saves : SavePersisted(i)
    \/ SerialOpen
    \/ SerialSendCommand
    \/ SerialLine
    \/ DeviceSetup
    \/ LoopSerial
    \/ \E duration \in {100, 300} : LoopGame(duration)

SpecLink == Init /\ [][NextLink]_vars

\* The device's loop runs for ever, the messages between renderer and main
\* process and the lines on the open port are delivered, and the promises
\* of the save handler and of finishGame settle; the player and the ball
\* are free.
SpecLinkFair ==
    /\ SpecLink
    /\ WF_vars(DeviceSetup)
    /\ WF_vars(LoopSerial)
    /\ WF_vars(\E duration \in {100, 300} : LoopGame(duration))
    /\ WF_vars(SerialSendCommand)
    /\ WF_vars(SerialLine)
    /\ WF_vars(OnSerialData)
    /\ WF_vars(\E i \in DOMAIN saves : SaveLoaded(i))
    /\ WF_vars(\E i \in DOMAIN saves : SavePersisted(i))
    /\ WF_vars(\E i \in DOMAIN finishing : FinishSaved(i))
    /\ WF_vars(\E i \in DOMAIN finishing : FinishLoaded(i))

\* A FINISH line printed by the device is on its way to the renderer.
FinishInFlight ==
    \/ \E k \in DOMAIN toHost : Trim(toHost[k]) = "FINISH"
    \/ \E k \in DOMAIN ipcSerial : ipcSerial[k] = "FINISH"

\* C22: a START on its way to an IDLE device behind an open port, for a
\* run that is timed, leads to the device being ACTIVE; and a FINISH on its
\* way to the renderer while a run is timed leads to that run's outcome
\* being persisted, the outcome after the n persisted or pending before
\* it: a SUCCESS unless the player has conceded the run in between.
C22_HandshakeCompletes ==
    /\ (timerInterval # 0 /\ cmdQueue # <<>> /\ portIsOpen /\ ~gameIsActive)
           ~> gameIsActive
    /\ \A n \in 0..MaxRuns :
           (FinishInFlight /\ timerInterval # 0 /\ Len(saves) = n)
               ~> (Len(saves) > n /\ saves[n + 1].pc = "done")

\* C28: whenever the host has no timed run the device is IDLE.
C28_NoTimedRunDeviceIdle ==
    timerInterval = 0 => ~gameIsActive

----------------------------------------------------------------------------
(* The leaderboard table, rendered from the files of earlier sessions *)

NextRank ==
    \/ ViewLeaderboard
    \/ Back

SpecRank == InitRank /\ [][NextRank]_vars

\* C27: the rows of the rendered table all hold a finite time, are in
\* ascending order of time, and are rows of players who count a success
\* in the file; a player whose row counts no success is in no row of it.
C27_RankedSnapshot ==
    /\ \A i \in DOMAIN leaderboardBody : leaderboardBody[i].time # Infinity
    /\ \A i, j \in DOMAIN leaderboardBody :
           i < j => leaderboardBody[i].time <= leaderboardBody[j].time
    /\ \A i \in DOMAIN leaderboardBody :
           \E k \in DOMAIN file : /\ file[k].rollNo = leaderboardBody[i].rollNo
                                  /\ file[k].time = leaderboardBody[i].time
                                  /\ file[k].successes > 0
    /\ \A k \in DOMAIN file :
           file[k].successes = 0 =>
               \A i \in DOMAIN leaderboardBody : leaderboardBody[i].rollNo # file[k].rollNo

\* The table has been rendered from a file whose first row counts no
\* success and whose next two rows are in descending order of time: it
\* holds these two rows, the other way round.
C27_Witness ==
    /\ screen = "leaderboard"
    /\ Len(file) = 3
    /\ file[1].time = Infinity
    /\ file[2].time > file[3].time
    /\ file[3].time > 0
    /\ file[2].time < Infinity
    /\ Len(leaderboardBody) = 2
    /\ leaderboardBody[1].rollNo = file[3].rollNo
    /\ leaderboardBody[2].rollNo = file[2].rollNo

----------------------------------------------------------------------------
(* Properties of the device (SpecDevice) *)

\* loop's first block reads a line that trims to START.
StartReceived ==
    /\ devPc = "serial" /\ devPc' = "game"
    /\ toDevice # <<>> /\ Trim(Head(toDevice)) = "START"

\* loop's second block samples a distance for which the fall test of the
\* sketch is true.
FallenSampled ==
    /\ devPc = "game" /\ devPc' = "serial"
    /\ gameIsActive
    /\ distance' > 0 /\ distance' < FALL_THRESHOLD

\* C8: START received while IDLE makes the device ACTIVE; START received
\* while ACTIVE leaves it ACTIVE and prints no FINISH; a true fall test while
\* ACTIVE makes it IDLE and prints exactly one FINISH line; FINISH is printed
\* only from ACTIVE, so the FINISH lines printed never outnumber the IDLE to
\* ACTIVE transitions.
C8_RunStateMachine ==
    [][/\ (StartReceived /\ ~gameIsActive) =>
              gameIsActive' /\ activations' = activations + 1
       /\ (StartReceived /\ gameIsActive) =>
              gameIsActive' /\ finishEmitted' = finishEmitted /\ toHost' = toHost
       /\ FallenSampled =>
              /\ ~gameIsActive'
              /\ finishEmitted' = finishEmitted + 1
              /\ toHost' = Append(toHost, "FINISH\r")
       /\ finishEmitted' # finishEmitted =>
              devPc = "game" /\ gameIsActive /\ ~gameIsActive'
       /\ Cardinality({k \in DOMAIN toHost' : toHost'[k] = "FINISH\r"}) = finishEmitted'
       /\ finishEmitted' <= activations'
      ]_vars

\* The device has finished one game and has been started again.
C8_Witness ==
    /\ finishEmitted = 1
    /\ activations = 2
    /\ gameIsActive

\* loop's second block samples the distance while the game is active.
SampleTaken ==
    /\ devPc = "game" /\ devPc' = "serial"
    /\ gameIsActive

\* The sample ends the game and prints FINISH in this step.
FinishTriggered ==
    /\ ~gameIsActive'
    /\ finishEmitted' = finishEmitted + 1
    /\ toHost' = Append(toHost, "FINISH\r")

\* The sample leaves the game active and prints nothing.
NothingTriggered ==
    /\ gameIsActive'
    /\ finishEmitted' = finishEmitted
    /\ toHost' = toHost

\* C24, as stated: while the game is active every sample below the
\* threshold, 0 included, ends the game and prints FINISH in the same
\* iteration of loop, and a sample at or above the threshold never does.
C24_BelowThresholdTriggers ==
    [][SampleTaken =>
           IF distance' < FALL_THRESHOLD THEN FinishTriggered ELSE NothingTriggered
      ]_vars

\* C24, amended: while the game is active every sample above 0 and below
\* the threshold ends the game and prints FINISH in the same iteration of
\* loop; a sample of 0 (no echo) and a sample at or above the threshold never
\* do.
C24_BetweenZeroAndThresholdTriggers ==
    [][SampleTaken =>
           IF 0 < distance' /\ distance' < FALL_THRESHOLD
           THEN FinishTriggered
           ELSE NothingTriggered
      ]_vars

\* A game has been ended by a sample, and in the game started after it a
\* sample of 0 has left the device active.
C24_Witness ==
    /\ finishEmitted = 1
    /\ activations = 2
    /\ gameIsActive
    /\ devPc = "serial"
    /\ distance = 0

----------------------------------------------------------------------------
(* Properties of the session (Spec) *)

\* C2: no two invocations of 'excel:save-data' are between the start of
\* their load and the end of their write at once.
C2_ApplyMutualExclusion == Cardinality(InFlight) <= 1

\* C3: when two applies for two different players have both returned
\* success and none is under way, the file has a record of each of the two
\* players that counts its outcome.
C3_NoLostUpdate ==
    \A i, j \in Done :
        (InFlight = {} /\ saves[i].entry.rollNo # saves[j].entry.rollNo) =>
            \A k \in {i, j} :
                \E r \in RowsOf(file, saves[k].entry.rollNo) :
                    IF saves[k].entry.status = "success"
                    THEN file[r].successes >= 1
                    ELSE file[r].defeats >= 1

\* C9: while a run is timed no START is sent, the start instant is kept and
\* no interval timer is added, so a begin is rejected; at most one interval
\* timer is scheduled.
C9_SecondBeginRejected ==
    [][/\ timerInterval # 0 =>
              /\ startsSent' = startsSent
              /\ cmdQueue' \in {cmdQueue, Tail(cmdQueue)}
              /\ startTime' = startTime
              /\ intervals' \subseteq intervals
       /\ Cardinality(intervals') <= 1
      ]_vars

\* The listener of 'serial:data-received' handles a FINISH line.
FinishLineHandled ==
    /\ ipcSerial # <<>>
    /\ Head(ipcSerial) = "FINISH"
    /\ ipcSerial' = Tail(ipcSerial)

\* C10: a FINISH line handled while a run is timed stops the clock, issues
\* one save with status success and clears the timed run; a save is issued
\* only by a step that ends a timed run, one save per step, so nothing that
\* follows for the same run issues another.
C10_OneOutcomePerRun ==
    [][/\ (FinishLineHandled /\ timerInterval # 0) =>
              /\ timerInterval' = 0
              /\ intervals' = intervals \ {timerInterval}
              /\ Len(saves') = Len(saves) + 1
              /\ saves'[Len(saves')].entry.status = "success"
       /\ Len(saves') # Len(saves) =>
              /\ timerInterval # 0
              /\ timerInterval' = 0
              /\ Len(saves') = Len(saves) + 1
      ]_vars

----------------------------------------------------------------------------
(* Properties of the session timer (SpecTimer) *)

\* C11: a FINISH line handled while no run is timed (before any begin, after
\* the run has ended, or a second FINISH of the same run) is ignored: no save
\* is issued, and the timed-run state, the player of the session, the pending
\* finishGame calls and the screen stay as they are.
C11_StrayFinishIgnored ==
    [][(FinishLineHandled /\ timerInterval = 0) =>
           /\ saves' = saves
           /\ file' = file
           /\ timerInterval' = 0
           /\ intervals' = intervals
           /\ startTime' = startTime
           /\ currentPlayer' = currentPlayer
           /\ finishing' = finishing
           /\ screen' = screen
      ]_vars

\* A run has been ended, its game screen is still shown, and a FINISH line
\* is handed to the listener.
C11_Witness ==
    /\ timerInterval = 0
    /\ Len(saves) = 1
    /\ screen = "game"
    /\ ipcSerial # <<>>
    /\ Head(ipcSerial) = "FINISH"

\* C12: conceding while a run is timed ends it without a FINISH line: the
\* interval timer is cleared and the timed-run state with it, and exactly one
\* save is issued, for the session's player, with status defeat and the time
\* elapsed since the start instant; conceding while no run is timed changes
\* nothing.
C12_ConcedeEndsRun ==
    [][AcceptDefeat =>
           IF timerInterval # 0
           THEN /\ timerInterval' = 0
                /\ intervals' = intervals \ {timerInterval}
                /\ saves' = Append(saves,
                              [pc    |-> "load",
                               entry |-> [name   |-> currentPlayer.name,
                                          rollNo |-> currentPlayer.rollNo,
                                          time   |-> clock - startTime,
                                          status |-> "defeat"],
                               data  |-> <<>>])
                /\ ipcSerial' = ipcSerial
           ELSE UNCHANGED vars
      ]_vars

\* A run has been conceded one tick after its begin, no FINISH line having
\* been received.
C12_Witness ==
    /\ Len(saves) = 1
    /\ saves[1].entry.status = "defeat"
    /\ saves[1].entry.time = 1
    /\ timerInterval = 0
    /\ ipcSerial = <<>>
    /\ ~portIsOpen

\* C23: timerInterval goes from set to null only in a step in which a FINISH
\* line is handled while the game screen is active, in a click on
\* accept-defeat or in a click on simulation-finish; no tick of the clock, no
\* other line, no load of the leaderboard and no change of screen ends the
\* timed run.
C23_NoAutomaticTimeout ==
    [][(timerInterval # 0 /\ timerInterval' = 0) =>
           \/ FinishLineHandled /\ screen = "game"
           \/ AcceptDefeat
           \/ SimulateFinish
      ]_vars

\* The one run begun is still timed after the clock has advanced, the
\* leaderboard has been loaded and shown, and a line other than FINISH has
\* been received.
C23_Witness ==
    /\ startsSent = 1
    /\ timerInterval # 0
    /\ clock > startTime
    /\ screen = "leaderboard"
    /\ ipcSerial # <<>>
    /\ Head(ipcSerial) = "Game Started!"
    /\ saves = <<>>

----------------------------------------------------------------------------
(* Properties of the serial transport (SpecSerial) *)

\* C13: in every state at most one SerialPort is open or opening, whatever
\* the sequence of discovery passes, connects and sends.
C13_AtMostOneConnection == Cardinality(Connections) <= 1

\* The 'serial:send-command' handler takes a command.
CommandHandled == cmdQueue # <<>> /\ cmdQueue' = Tail(cmdQueue)

\* C14: a command handled while port is not open is written to no port,
\* changes nothing in the renderer beyond leaving the queue, and starts one
\* discovery pass, the handler returning with the SerialPort objects as they
\* were; a line is written only when a command is handled while port is
\* open, and is that command, so a dropped command is never written later.
C14_SendWithoutConnection ==
    [][/\ (CommandHandled /\ ~IsOpen(ports, port)) =>
              /\ toDevice' = toDevice
              /\ written' = written
              /\ listing' = listing + 1
              /\ ports' = ports
              /\ port' = port
              /\ UNCHANGED <<screen, timerInterval, intervals, startTime,
                             currentPlayer, finishing, startsSent>>
       /\ toDevice' # toDevice =>
              /\ CommandHandled
              /\ IsOpen(ports, port)
              /\ toDevice' = Append(toDevice, Head(cmdQueue))
      ]_vars

\* The one command sent was handled before any port was open, and the port
\* has opened since with nothing written to it.
C14_Witness ==
    /\ startsSent = 1
    /\ cmdQueue = <<>>
    /\ written = 0
    /\ toDevice = <<>>
    /\ IsOpen(ports, port)

\* The parser of a port emits a line.
LineParsed == toHost # <<>> /\ toHost' = Tail(toHost)

\* C15: every line a parser emits is appended, trimmed, to the messages on
\* their way to the renderer's listener, whatever the state of the host, and
\* these messages change otherwise only by the listener taking the first.
C15_EveryLineDelivered ==
    [][/\ LineParsed => ipcSerial' = Append(ipcSerial, Trim(Head(toHost)))
       /\ ipcSerial' # ipcSerial =>
              \/ LineParsed
              \/ ipcSerial # <<>> /\ ipcSerial' = Tail(ipcSerial)
      ]_vars

----------------------------------------------------------------------------
(* Properties of the session on a file system that fails (Spec) *)

\* C17: when the write of an apply fails the handler returns { success:
\* false, error }, and the finishGame that issued it does not go on to show
\* the results panel of the run.
C17_WriteFailureReported ==
    \A i \in DOMAIN saves :
        saves[i].pc = "failed" =>
            /\ ~SaveResult(i).success
            /\ "error" \in DOMAIN SaveResult(i)
            /\ finishing[i].panel # "results"

\* C20: a write of the reducer keeps a record of every player the file had
\* a record of.
C20_RecordsNeverDestroyed ==
    [][\A i \in DOMAIN saves :
          Persists(i) =>
              \A p \in Players : RowsOf(file, p) # {} => RowsOf(file', p) # {}
      ]_vars

----------------------------------------------------------------------------
(* Properties of the two readers of lines (SpecLines) *)

\* loop's first block reads a line.
LineRead ==
    /\ devPc = "serial" /\ devPc' = "game"
    /\ toDevice # <<>> /\ toDevice' = Tail(toDevice)

\* The listener of 'serial:data-received' handles a line.
LineHandled == ipcSerial # <<>> /\ ipcSerial' = Tail(ipcSerial)

\* C21: a line read by the device that does not trim to START leaves
\* gameIsActive as it is and prints nothing; a line handled by the renderer's
\* listener that does not trim to exactly FINISH leaves the timed-run state,
\* the player and the screen as they are and issues no save.
C21_OtherLinesIgnored ==
    [][/\ (LineRead /\ Trim(Head(toDevice)) # "START") =>
              /\ gameIsActive' = gameIsActive
              /\ activations' = activations
              /\ finishEmitted' = finishEmitted
              /\ toHost' = toHost
       /\ (LineHandled /\ Trim(Head(ipcSerial)) # "FINISH") =>
              /\ timerInterval' = timerInterval
              /\ intervals' = intervals
              /\ startTime' = startTime
              /\ currentPlayer' = currentPlayer
              /\ screen' = screen
              /\ saves' = saves
              /\ finishing' = finishing
      ]_vars

\* The device has read every line written to it and none has started a
\* game; a run is timed on the game screen and the device's 'Game Started!'
\* is handed to the listener.
C21_Witness ==
    /\ written >= 1
    /\ toDevice = <<>>
    /\ devPc = "game"
    /\ activations = 0
    /\ timerInterval # 0
    /\ screen = "game"
    /\ ipcSerial # <<>>
    /\ Head(ipcSerial) = "Game Started!"

====
